---- MODULE Spec2Model ----
(***************************************************************************)
(* Model of the two Gemini batch scripts of the repository:                *)
(*   src/gen_ai_task_2.py   review pipeline  (script = "reviews")          *)
(*   src/geni_ai_task_1.py  email pipeline   (script = "emails")           *)
(* A Python str is a sequence of one-character strings, so that split,     *)
(* strip, startswith, the f-string prompts and the csv writer are computed *)
(* character by character as the code computes them.                       *)
(***************************************************************************)
EXTENDS Integers, Sequences, FiniteSets, TLC

VARIABLES
    script,            \* which script's main() runs: "reviews" or "emails"
    api_key,           \* os.getenv('GEMINI_API_KEY'): [present, value]
    in_file,           \* the input text file: [exists, text]
    out_file,          \* the output csv file: [exists, text]
    reads,             \* number of times the input file was opened
    writes,            \* number of times the output file was opened for writing
    sessions,          \* number of chat sessions started (model.start_chat)
    session,           \* send_message calls on chat_session: [prompt, raised, text]
    pc,                \* position of main()
    records,           \* the list `reviews` / `emails` returned by the reader
    idx,               \* number of records the for loop has taken
    original_product, review_text, guessed_product, sentiment, reply,
    sender, receiver, body, summary_en, summary_de,
    data,              \* the list `data` of rows
    slept,             \* seconds spent in time.sleep
    exc,               \* the exception raised inside main()'s try block
    stdout             \* what print() wrote

vars == <<script, api_key, in_file, out_file, reads, writes, sessions, session,
          pc, records, idx, original_product, review_text, guessed_product,
          sentiment, reply, sender, receiver, body, summary_en, summary_de,
          data, slept, exc, stdout>>

----------------------------------------------------------------------------
(* Bounds of the model                                                      *)

\* most delimiter-separated segments in an input file
MaxSegments == 2

\* most lines in a record handed to the field extractors alone
MaxLines == 3

----------------------------------------------------------------------------
(* Python str operations                                                    *)

\* the characters str.strip() removes (those the model's texts can hold)
Whitespace == {" ", "\t", "\n", "\r", "\f"}

RECURSIVE lstrip(_)
lstrip(s) ==
    IF s = <<>> THEN s
    ELSE IF Head(s) \in Whitespace THEN lstrip(Tail(s)) ELSE s

RECURSIVE rstrip(_)
rstrip(s) ==
    IF s = <<>> THEN s
    ELSE IF s[Len(s)] \in Whitespace THEN rstrip(SubSeq(s, 1, Len(s) - 1)) ELSE s

\* str.strip()
strip(s) == rstrip(lstrip(s))

\* str.startswith(prefix)
startswith(s, prefix) ==
    /\ Len(s) >= Len(prefix)
    /\ SubSeq(s, 1, Len(prefix)) = prefix

\* str.startswith((p1, p2, ...))
startswith_any(s, prefixes) == \E p \in prefixes : startswith(s, p)

\* the first position >= i where the non-empty sep occurs in s, 0 when none
RECURSIVE find_from(_, _, _)
find_from(s, sep, i) ==
    IF i + Len(sep) - 1 > Len(s) THEN 0
    ELSE IF s[i] = sep[1] /\ SubSeq(s, i, i + Len(sep) - 1) = sep THEN i
    ELSE find_from(s, sep, i + 1)

\* str.find(sep) + 1: the first position where sep occurs in s, 0 when none
find(s, sep) == find_from(s, sep, 1)

\* str.split(sep, maxsplit) for a non-empty sep; maxsplit = -1 is "no limit"
RECURSIVE split(_, _, _)
split(s, sep, maxsplit) ==
    LET i == find(s, sep)
    IN  IF maxsplit = 0 \/ i = 0 THEN <<s>>
        ELSE <<SubSeq(s, 1, i - 1)>>
             \o split(SubSeq(s, i + Len(sep), Len(s)), sep, maxsplit - 1)

\* "".join(parts) with a separator
RECURSIVE join(_, _)
join(sep, parts) ==
    IF parts = <<>> THEN <<>>
    ELSE IF Len(parts) = 1 THEN parts[1]
    ELSE parts[1] \o sep \o join(sep, Tail(parts))

----------------------------------------------------------------------------
(* Literals of the source                                                   *)

END_OF_REVIEW == <<"-","-","-","E","N","D"," ","O","F"," ","R","E","V","I","E","W","-","-","-">>
END_OF_EMAIL == <<"-","-","-","E","N","D"," ","O","F"," ","E","M","A","I","L","-","-","-">>
NL == <<"\n">>
COLON == <<":">>
SPACE == <<" ">>
PRODUCT_ == <<"P","r","o","d","u","c","t",":">>
REVIEW_ == <<"R","e","v","i","e","w",":">>
FROM_ == <<"F","r","o","m",":">>
TO_ == <<"T","o",":">>
SUBJECT_ == <<"S","u","b","j","e","c","t",":">>
POSITIVE == <<"P","o","s","i","t","i","v","e">>
NEGATIVE == <<"N","e","g","a","t","i","v","e">>
NEUTRAL == <<"N","e","u","t","r","a","l">>

\* the default delimiter of the script's reader
delimiter == IF script = "reviews" THEN END_OF_REVIEW ELSE END_OF_EMAIL

----------------------------------------------------------------------------
(* Record Reader                                                            *)

\* read_records with `if x` for `if x.strip()`: blank segments are kept
read_records_keep_blank(content, delim) ==
    LET kept == SelectSeq(split(content, delim, -1), LAMBDA x : x # <<>>)
    IN  [i \in 1..Len(kept) |-> strip(kept[i])]

\* [x.strip() for x in content.split(delimiter) if x.strip()]
read_records(content, delim) ==
    LET kept == SelectSeq(split(content, delim, -1), LAMBDA x : strip(x) # <<>>)
    IN  [i \in 1..Len(kept) |-> strip(kept[i])]

read_reviews(content) == read_records(content, END_OF_REVIEW)

read_emails(content) == read_records(content, END_OF_EMAIL)

----------------------------------------------------------------------------
(* Field extractors                                                         *)

\* line.split(":", 1)[1].strip(); [1] raises IndexError when there is no colon
after_colon(line) ==
    LET parts == split(line, COLON, 1)
    IN  IF Len(parts) < 2 THEN [raised |-> TRUE, value |-> <<>>]
        ELSE [raised |-> FALSE, value |-> strip(parts[2])]

\* review_line with "first matching line wins": a field once set is kept
review_line_first_wins(acc, line) ==
    IF acc.raised THEN acc
    ELSE IF startswith(line, PRODUCT_)
    THEN (IF acc.product # <<>> THEN acc
          ELSE [acc EXCEPT !.raised = after_colon(line).raised,
                           !.product = after_colon(line).value])
    ELSE IF startswith(line, REVIEW_)
    THEN (IF acc.review_text # <<>> THEN acc
          ELSE [acc EXCEPT !.raised = after_colon(line).raised,
                           !.review_text = after_colon(line).value])
    ELSE acc

\* one iteration of the for loop of extract_review_info
review_line(acc, line) ==
    IF acc.raised THEN acc
    ELSE IF startswith(line, PRODUCT_)
    THEN [acc EXCEPT !.raised = after_colon(line).raised,
                     !.product = after_colon(line).value]
    ELSE IF startswith(line, REVIEW_)
    THEN [acc EXCEPT !.raised = after_colon(line).raised,
                     !.review_text = after_colon(line).value]
    ELSE acc

RECURSIVE review_lines(_, _)
review_lines(acc, lines) ==
    IF lines = <<>> THEN acc
    ELSE review_lines(review_line(acc, Head(lines)), Tail(lines))

extract_review_info(review) ==
    review_lines([raised |-> FALSE, product |-> <<>>, review_text |-> <<>>],
                 split(review, NL, -1))

\* email_line with a plain `else`: "Subject:" lines reach the body
email_line_subject_in_body(acc, line) ==
    IF acc.raised THEN acc
    ELSE IF startswith(line, FROM_)
    THEN [acc EXCEPT !.raised = after_colon(line).raised,
                     !.sender = after_colon(line).value]
    ELSE IF startswith(line, TO_)
    THEN [acc EXCEPT !.raised = after_colon(line).raised,
                     !.receiver = after_colon(line).value]
    ELSE [acc EXCEPT !.body = acc.body \o strip(line) \o SPACE]

\* one iteration of the for loop of extract_email_info
email_line(acc, line) ==
    IF acc.raised THEN acc
    ELSE IF startswith(line, FROM_)
    THEN [acc EXCEPT !.raised = after_colon(line).raised,
                     !.sender = after_colon(line).value]
    ELSE IF startswith(line, TO_)
    THEN [acc EXCEPT !.raised = after_colon(line).raised,
                     !.receiver = after_colon(line).value]
    ELSE IF ~startswith_any(line, {SUBJECT_, FROM_, TO_})
    THEN [acc EXCEPT !.body = acc.body \o strip(line) \o SPACE]
    ELSE acc

RECURSIVE email_lines(_, _)
email_lines(acc, lines) ==
    IF lines = <<>> THEN acc
    ELSE email_lines(email_line(acc, Head(lines)), Tail(lines))

extract_email_info(email) ==
    LET acc == email_lines([raised |-> FALSE, sender |-> <<>>, receiver |-> <<>>,
                            body |-> <<>>],
                           split(email, NL, -1))
    IN  [acc EXCEPT !.body = strip(acc.body)]

----------------------------------------------------------------------------
(* Model Client Adapter: the prompts and what is kept of a response         *)

classify_prompt(text) ==
    <<"C","l","a","s","s","i","f","y"," ","t","h","e"," ","s","e","n","t","i","m","e","n","t"," ","o","f"," ","t","h","i","s"," ","r","e","v","i","e","w"," ","a","s"," ","P","o","s","i","t","i","v","e",","," ","N","e","g","a","t","i","v","e",","," ","o","r"," ","N","e","u","t","r","a","l",":"," ">> \o text

reply_prompt(s, text) ==
    <<"W","r","i","t","e"," ","a"," ","r","e","p","l","y"," ","t","o"," ","t","h","i","s"," ","r","e","v","i","e","w"," ","b","a","s","e","d"," ","o","n"," ","t","h","e"," ","s","e","n","t","i","m","e","n","t",":"," ">> \o s \o <<"."," ","R","e","v","i","e","w",":"," ">> \o text

guess_prompt(text) ==
    <<"G","u","e","s","s"," ","t","h","e"," ","p","r","o","d","u","c","t"," ","n","a","m","e"," ","b","a","s","e","d"," ","o","n"," ","t","h","i","s"," ","r","e","v","i","e","w"," ","i","n"," ","o","n","e"," ","w","o","r","d",":"," ">> \o text

summarize_prompt(text) ==
    <<"S","u","m","m","a","r","i","z","e"," ","t","h","e"," ","f","o","l","l","o","w","i","n","g"," ","e","m","a","i","l",":"," ">> \o text

translate_prompt(text) ==
    <<"T","r","a","n","s","l","a","t","e"," ","t","h","e"," ","f","o","l","l","o","w","i","n","g"," ","t","e","x","t"," ","t","o"," ","T","e","l","u","g","u",":"," ">> \o text

\* sentiment_of without the allow-list check
sentiment_of_unchecked(text) == strip(text)

\* analyze_sentiment: sentiment_response.text.strip(), then the allow-list check
sentiment_of(text) ==
    LET s == strip(text)
    IN  IF s \notin {POSITIVE, NEGATIVE, NEUTRAL} THEN NEUTRAL ELSE s

\* analyze_sentiment: reply_response.text.strip()
reply_of(text) == strip(text)

\* guess_of without .strip()
guess_of_raw(text) == text

\* guess_product: product_response.text.strip()
guess_of(text) == strip(text)

\* summarize_email: response.text
summary_of(text) == text

\* translate_email: response.text
translation_of(text) == text

----------------------------------------------------------------------------
(* Tabular Writer: csv.writer with the default (excel) dialect              *)

COMMA == <<",">>
QUOTE == <<"\"">>
CRLF == <<"\r","\n">>

\* the characters that make QUOTE_MINIMAL quote a field
NeedsQuote == {",", "\"", "\r", "\n"}

RECURSIVE double_quotes(_)
double_quotes(field) ==
    IF field = <<>> THEN <<>>
    ELSE (IF Head(field) = "\"" THEN QUOTE \o QUOTE ELSE <<Head(field)>>)
         \o double_quotes(Tail(field))

csv_field(field) ==
    IF \E i \in 1..Len(field) : field[i] \in NeedsQuote
    THEN QUOTE \o double_quotes(field) \o QUOTE
    ELSE field

\* writer.writerow(row)
csv_row(row) ==
    join(COMMA, [i \in 1..Len(row) |-> csv_field(row[i])]) \o CRLF

\* writer.writerows(data)
RECURSIVE csv_rows(_)
csv_rows(rows) ==
    IF rows = <<>> THEN <<>> ELSE csv_row(Head(rows)) \o csv_rows(Tail(rows))

REVIEW_HEADER ==
    <<<<"O","r","i","g","i","n","a","l"," ","P","r","o","d","u","c","t">>, <<"G","u","e","s","s","e","d"," ","P","r","o","d","u","c","t">>, <<"R","e","v","i","e","w">>, <<"S","e","n","t","i","m","e","n","t">>, <<"R","e","p","l","y">>>>

EMAIL_HEADER ==
    <<<<"S","e","n","d","e","r">>, <<"R","e","c","e","i","v","e","r">>, <<"S","u","m","m","a","r","y"," ","(","E","N",")">>, <<"S","u","m","m","a","r","y"," ","(","D","E",")">>>>

\* save_to_csv with open(csv_file, 'a'): the rows are appended to the old text
save_to_csv_append(header, rows, before) ==
    before \o csv_row(header) \o csv_rows(rows)

\* open(csv_file, 'w', newline=''), the header row, then the data rows:
\* the text the file holds afterwards, given the text it held before
save_to_csv(header, rows, before) == csv_row(header) \o csv_rows(rows)

----------------------------------------------------------------------------
(* The environment: input files, credentials, what the model service says   *)

SLEEP_SECONDS == 2

\* raw segments an input file of reviews is made of
ReviewSegments ==
    { <<>>, <<" ","\n">>,
      <<"\n","P","r","o","d","u","c","t",":"," ","T","v","\n","R","e","v","i","e","w",":"," ","G","r","e","a","t",","," ","\"","w","o","w","\"","\n">>,
      <<"n","o"," ","f","i","e","l","d","s"," ","h","e","r","e">> }

\* raw segments an input file of emails is made of
EmailSegments ==
    { <<>>, <<" ","\n">>,
      <<"F","r","o","m",":"," ","a","@","x",".","c","o","m","\n","T","o",":"," ","b","@","x",".","c","o","m","\n","S","u","b","j","e","c","t",":"," ","H","i","\n","T","h","a","n","k","s"," ","f","o","r"," ","t","h","e"," ","o","r","d","e","r",".","\n">>,
      <<"T","o",":"," ","c","@","x",".","c","o","m","\n"," ","H","e","l","l","o",","," ","\n","a","l","l">> }

\* the file contents: 1..MaxSegments raw segments with the delimiter between them
Contents(segments, delim) ==
    { join(delim, segs) : segs \in UNION { [1..n -> segments] : n \in 1..MaxSegments } }

\* what the model service may answer to each kind of message
GuessTexts == { <<"T","v">>, <<" ","P","h","o","n","e","\n">> }
ClassifyTexts == { <<" ","N","e","g","a","t","i","v","e","\n">>, <<"P","r","e","t","t","y"," ","g","o","o","d","!">>, <<"p","o","s","i","t","i","v","e">> }
ReplyTexts == { <<"S","o","r","r","y",","," ","\"","n","o","t","e","d","\"","\n">> }
SummaryTexts == { <<"O","r","d","e","r"," ","o","k">>, <<" ","G","r","e","e","t","s"," ","a","l","l",".","\n">> }
TranslationTexts == { <<"D","h","a","n","y","a","v","a","a","d","a","a","l","u">>, <<"N","a","m","a","s","t","e","\n">> }

\* what a csv file left by an earlier run holds
OldOutput == <<"s","t","a","l","e",",","r","o","w","\r","\n">>

sent(prompt, text) == [prompt |-> prompt, raised |-> FALSE, text |-> text]

failed(prompt) == [prompt |-> prompt, raised |-> TRUE, text |-> <<>>]

fixed == <<script, api_key, in_file>>

files == <<out_file, reads, writes>>

review_locals == <<original_product, review_text, guessed_product, sentiment, reply>>

email_locals == <<sender, receiver, body, summary_en, summary_de>>

Init ==
    /\ script \in {"reviews", "emails"}
    /\ api_key \in { [present |-> FALSE, value |-> <<>>],
                     [present |-> TRUE, value |-> <<>>],
                     [present |-> TRUE, value |-> <<"k","3","y">>] }
    /\ in_file \in { [exists |-> FALSE, text |-> <<>>] }
                    \cup { [exists |-> TRUE, text |-> c] :
                           c \in IF script = "reviews"
                                 THEN Contents(ReviewSegments, END_OF_REVIEW)
                                 ELSE Contents(EmailSegments, END_OF_EMAIL) }
    /\ out_file \in { [exists |-> FALSE, text |-> <<>>],
                      [exists |-> TRUE, text |-> OldOutput] }
    /\ reads = 0 /\ writes = 0 /\ sessions = 0 /\ session = <<>>
    /\ pc = "start"
    /\ records = <<>> /\ idx = 0 /\ data = <<>>
    /\ original_product = <<>> /\ review_text = <<>> /\ guessed_product = <<>>
    /\ sentiment = <<>> /\ reply = <<>>
    /\ sender = <<>> /\ receiver = <<>> /\ body = <<>>
    /\ summary_en = <<>> /\ summary_de = <<>>
    /\ slept = 0 /\ exc = "none" /\ stdout = <<>>

----------------------------------------------------------------------------
(* main(): the steps of the try block                                       *)

\* main_check_key with `if api_key is None`: an empty key goes on
main_check_key_none_only ==
    /\ pc = "start"
    /\ IF ~api_key.present
       THEN exc' = "ValueError" /\ pc' = "except"
       ELSE exc' = exc /\ pc' = "configure"
    /\ UNCHANGED <<fixed, files, sessions, session, records, idx, review_locals,
                   email_locals, data, slept, stdout>>

\* load_dotenv(), os.getenv, `if not api_key: raise ValueError(...)`
main_check_key ==
    /\ pc = "start"
    /\ IF ~api_key.present \/ api_key.value = <<>>
       THEN exc' = "ValueError" /\ pc' = "except"
       ELSE exc' = exc /\ pc' = "configure"
    /\ UNCHANGED <<fixed, files, sessions, session, records, idx, review_locals,
                   email_locals, data, slept, stdout>>

\* genai.configure, GenerativeModel(...), model.start_chat(history=[])
main_start_chat ==
    /\ pc = "configure"
    /\ sessions' = sessions + 1
    /\ session' = <<>>
    /\ pc' = "read"
    /\ UNCHANGED <<fixed, files, records, idx, review_locals, email_locals, data,
                   slept, exc, stdout>>

\* process_*: the reader call and `data = []`
process_read ==
    /\ pc = "read"
    /\ reads' = reads + 1
    /\ IF in_file.exists
       THEN /\ records' = IF script = "reviews" THEN read_reviews(in_file.text)
                                                ELSE read_emails(in_file.text)
            /\ data' = <<>>
            /\ exc' = exc
            /\ pc' = "loop"
       ELSE /\ exc' = "FileNotFoundError"
            /\ pc' = "except"
            /\ UNCHANGED <<records, data>>
    /\ idx' = 0
    /\ UNCHANGED <<fixed, out_file, writes, sessions, session, review_locals,
                   email_locals, slept, stdout>>

\* process_reviews: `for review in reviews` and extract_review_info(review)
process_reviews_next ==
    /\ pc = "loop" /\ script = "reviews"
    /\ IF idx < Len(records)
       THEN LET info == extract_review_info(records[idx + 1])
            IN  /\ idx' = idx + 1
                /\ IF info.raised
                   THEN /\ exc' = "IndexError" /\ pc' = "except"
                        /\ UNCHANGED <<original_product, review_text>>
                   ELSE /\ original_product' = info.product
                        /\ review_text' = info.review_text
                        /\ exc' = exc /\ pc' = "guess"
       ELSE /\ pc' = "save"
            /\ UNCHANGED <<idx, original_product, review_text, exc>>
    /\ UNCHANGED <<fixed, files, sessions, session, records, guessed_product,
                   sentiment, reply, email_locals, data, slept, stdout>>

\* guess_product(review_text, chat_session)
call_guess_product ==
    /\ pc = "guess"
    /\ \/ \E t \in GuessTexts :
            /\ session' = Append(session, sent(guess_prompt(review_text), t))
            /\ guessed_product' = guess_of(t)
            /\ pc' = "classify"
            /\ exc' = exc
       \/ /\ session' = Append(session, failed(guess_prompt(review_text)))
          /\ exc' = "RemoteError"
          /\ pc' = "except"
          /\ UNCHANGED guessed_product
    /\ UNCHANGED <<fixed, files, sessions, records, idx, original_product,
                   review_text, sentiment, reply, email_locals, data, slept, stdout>>

\* call_classify with the error swallowed: the record goes on as Neutral
call_classify_skip ==
    /\ pc = "classify"
    /\ \/ \E t \in ClassifyTexts :
            /\ session' = Append(session, sent(classify_prompt(review_text), t))
            /\ sentiment' = sentiment_of(t)
       \/ /\ session' = Append(session, failed(classify_prompt(review_text)))
          /\ sentiment' = NEUTRAL
    /\ pc' = "reply"
    /\ UNCHANGED <<fixed, files, sessions, records, idx, original_product,
                   review_text, guessed_product, reply, email_locals, data, slept,
                   exc, stdout>>

\* analyze_sentiment: the classification message and the allow-list check
call_classify ==
    /\ pc = "classify"
    /\ \/ \E t \in ClassifyTexts :
            /\ session' = Append(session, sent(classify_prompt(review_text), t))
            /\ sentiment' = sentiment_of(t)
            /\ pc' = "reply"
            /\ exc' = exc
       \/ /\ session' = Append(session, failed(classify_prompt(review_text)))
          /\ exc' = "RemoteError"
          /\ pc' = "except"
          /\ UNCHANGED sentiment
    /\ UNCHANGED <<fixed, files, sessions, records, idx, original_product,
                   review_text, guessed_product, reply, email_locals, data, slept,
                   stdout>>

\* analyze_sentiment: the reply message
call_reply ==
    /\ pc = "reply"
    /\ \/ \E t \in ReplyTexts :
            /\ session' = Append(session, sent(reply_prompt(sentiment, review_text), t))
            /\ reply' = reply_of(t)
            /\ pc' = "append"
            /\ exc' = exc
       \/ /\ session' = Append(session, failed(reply_prompt(sentiment, review_text)))
          /\ exc' = "RemoteError"
          /\ pc' = "except"
          /\ UNCHANGED reply
    /\ UNCHANGED <<fixed, files, sessions, records, idx, original_product,
                   review_text, guessed_product, sentiment, email_locals, data,
                   slept, stdout>>

\* the row process_reviews appends
review_row ==
    <<original_product, guessed_product, review_text, sentiment, reply>>

\* process_reviews: data.append([...])
append_review_row ==
    /\ pc = "append" /\ script = "reviews"
    /\ data' = Append(data, review_row)
    /\ pc' = "sleep"
    /\ UNCHANGED <<fixed, files, sessions, session, records, idx, review_locals,
                   email_locals, slept, exc, stdout>>

\* sleep skipped after the last record
sleep_unless_last ==
    /\ pc = "sleep"
    /\ slept' = IF idx < Len(records) THEN slept + SLEEP_SECONDS ELSE slept
    /\ pc' = "loop"
    /\ UNCHANGED <<fixed, files, sessions, session, records, idx, review_locals,
                   email_locals, data, exc, stdout>>

\* process_reviews: time.sleep(2)
sleep ==
    /\ pc = "sleep"
    /\ slept' = slept + SLEEP_SECONDS
    /\ pc' = "loop"
    /\ UNCHANGED <<fixed, files, sessions, session, records, idx, review_locals,
                   email_locals, data, exc, stdout>>

\* process_emails: `for email in emails` and extract_email_info(email)
process_emails_next ==
    /\ pc = "loop" /\ script = "emails"
    /\ IF idx < Len(records)
       THEN LET info == extract_email_info(records[idx + 1])
            IN  /\ idx' = idx + 1
                /\ IF info.raised
                   THEN /\ exc' = "IndexError" /\ pc' = "except"
                        /\ UNCHANGED <<sender, receiver, body>>
                   ELSE /\ sender' = info.sender
                        /\ receiver' = info.receiver
                        /\ body' = info.body
                        /\ exc' = exc /\ pc' = "summarize"
       ELSE /\ pc' = "save"
            /\ UNCHANGED <<idx, sender, receiver, body, exc>>
    /\ UNCHANGED <<fixed, files, sessions, session, records, summary_en,
                   summary_de, review_locals, data, slept, stdout>>

\* summarize_email(body, chat_session)
call_summarize_email ==
    /\ pc = "summarize"
    /\ \/ \E t \in SummaryTexts :
            /\ session' = Append(session, sent(summarize_prompt(body), t))
            /\ summary_en' = summary_of(t)
            /\ pc' = "translate"
            /\ exc' = exc
       \/ /\ session' = Append(session, failed(summarize_prompt(body)))
          /\ exc' = "RemoteError"
          /\ pc' = "except"
          /\ UNCHANGED summary_en
    /\ UNCHANGED <<fixed, files, sessions, records, idx, sender, receiver, body,
                   summary_de, review_locals, data, slept, stdout>>

\* call_translate_email handed the body instead of the summary
call_translate_body ==
    /\ pc = "translate"
    /\ \/ \E t \in TranslationTexts :
            /\ session' = Append(session, sent(translate_prompt(body), t))
            /\ summary_de' = translation_of(t)
            /\ pc' = "append"
            /\ exc' = exc
       \/ /\ session' = Append(session, failed(translate_prompt(body)))
          /\ exc' = "RemoteError"
          /\ pc' = "except"
          /\ UNCHANGED summary_de
    /\ UNCHANGED <<fixed, files, sessions, records, idx, sender, receiver, body,
                   summary_en, review_locals, data, slept, stdout>>

\* translate_email(summary_en, chat_session)
call_translate_email ==
    /\ pc = "translate"
    /\ \/ \E t \in TranslationTexts :
            /\ session' = Append(session, sent(translate_prompt(summary_en), t))
            /\ summary_de' = translation_of(t)
            /\ pc' = "append"
            /\ exc' = exc
       \/ /\ session' = Append(session, failed(translate_prompt(summary_en)))
          /\ exc' = "RemoteError"
          /\ pc' = "except"
          /\ UNCHANGED summary_de
    /\ UNCHANGED <<fixed, files, sessions, records, idx, sender, receiver, body,
                   summary_en, review_locals, data, slept, stdout>>

\* the row process_emails appends
email_row == <<sender, receiver, summary_en, summary_de>>

\* process_emails: data.append([...])
append_email_row ==
    /\ pc = "append" /\ script = "emails"
    /\ data' = Append(data, email_row)
    /\ pc' = "loop"
    /\ UNCHANGED <<fixed, files, sessions, session, records, idx, review_locals,
                   email_locals, slept, exc, stdout>>

\* process_*: save_to_csv(data, csv_file)
process_save ==
    /\ pc = "save"
    /\ writes' = writes + 1
    /\ out_file' = [exists |-> TRUE,
                    text |-> save_to_csv(IF script = "reviews" THEN REVIEW_HEADER
                                                               ELSE EMAIL_HEADER,
                                         data, out_file.text)]
    /\ pc' = "done"
    /\ UNCHANGED <<fixed, reads, sessions, session, records, idx, review_locals,
                   email_locals, data, slept, exc, stdout>>

\* main: `except Exception as e: print(f"An error occurred: {e}")`
main_except ==
    /\ pc = "except"
    /\ stdout' = Append(stdout, <<"An error occurred", exc>>)
    /\ pc' = "done"
    /\ UNCHANGED <<fixed, files, sessions, session, records, idx, review_locals,
                   email_locals, data, slept, exc>>

Next ==
    \/ main_check_key
    \/ main_start_chat
    \/ process_read
    \/ process_reviews_next
    \/ call_guess_product
    \/ call_classify
    \/ call_reply
    \/ append_review_row
    \/ sleep
    \/ process_emails_next
    \/ call_summarize_email
    \/ call_translate_email
    \/ append_email_row
    \/ process_save
    \/ main_except

Spec == Init /\ [][Next]_vars

----------------------------------------------------------------------------
(* The field extractors alone, on any record text                           *)

\* lines a review record is made of
ReviewLines ==
    { <<>>, <<"P","r","o","d","u","c","t",":"," ","T","v">>, <<"P","r","o","d","u","c","t",":","a",":","b"," ">>, <<"R","e","v","i","e","w",":"," ","o","k">>, <<" ","R","e","v","i","e","w",":"," ","x">>,
      <<"R","a","t","i","n","g"," ","5">> }

\* lines an email record is made of
EmailLines ==
    { <<>>, <<"F","r","o","m",":"," ","a","@","x">>, <<"T","o",":","b",":","c"," ">>, <<"S","u","b","j","e","c","t",":"," ","H","i">>, <<" ","t","w","o"," "," ","w","o","r","d","s"," ">>,
      <<" ","T","o",":"," ","z">> }

\* the record texts: 0..MaxLines lines joined by newlines
RecordTexts(lines) ==
    { join(NL, ls) : ls \in UNION { [1..n -> lines] : n \in 0..MaxLines } }

InitExtract ==
    /\ script \in {"reviews", "emails"}
    /\ records \in { <<t>> : t \in IF script = "reviews" THEN RecordTexts(ReviewLines)
                                                          ELSE RecordTexts(EmailLines) }
    /\ pc = "call"
    /\ api_key = [present |-> FALSE, value |-> <<>>]
    /\ in_file = [exists |-> FALSE, text |-> <<>>]
    /\ out_file = [exists |-> FALSE, text |-> <<>>]
    /\ reads = 0 /\ writes = 0 /\ sessions = 0 /\ session = <<>>
    /\ idx = 0 /\ data = <<>>
    /\ original_product = <<>> /\ review_text = <<>> /\ guessed_product = <<>>
    /\ sentiment = <<>> /\ reply = <<>>
    /\ sender = <<>> /\ receiver = <<>> /\ body = <<>>
    /\ summary_en = <<>> /\ summary_de = <<>>
    /\ slept = 0 /\ exc = "none" /\ stdout = <<>>

\* original_product, review_text = extract_review_info(records[0])
apply_extract_review_info ==
    /\ pc = "call" /\ script = "reviews"
    /\ LET info == extract_review_info(records[1])
       IN  IF info.raised
           THEN exc' = "IndexError" /\ UNCHANGED <<original_product, review_text>>
           ELSE /\ original_product' = info.product
                /\ review_text' = info.review_text
                /\ exc' = exc
    /\ pc' = "returned"
    /\ UNCHANGED <<fixed, files, sessions, session, records, idx, guessed_product,
                   sentiment, reply, email_locals, data, slept, stdout>>

\* sender, receiver, body = extract_email_info(records[0])
apply_extract_email_info ==
    /\ pc = "call" /\ script = "emails"
    /\ LET info == extract_email_info(records[1])
       IN  IF info.raised
           THEN exc' = "IndexError" /\ UNCHANGED <<sender, receiver, body>>
           ELSE /\ sender' = info.sender
                /\ receiver' = info.receiver
                /\ body' = info.body
                /\ exc' = exc
    /\ pc' = "returned"
    /\ UNCHANGED <<fixed, files, sessions, session, records, idx, summary_en,
                   summary_de, review_locals, data, slept, stdout>>

NextExtract ==
    \/ apply_extract_review_info
    \/ apply_extract_email_info

SpecExtract == InitExtract /\ [][NextExtract]_vars

----------------------------------------------------------------------------
(* What the claims expect, stated from the input rather than by the code's  *)
(* loops                                                                    *)

LinesOf(text) == split(text, NL, -1)

\* the index of the last line that starts with prefix, 0 when there is none
LastLine(lines, prefix) ==
    LET hits == {i \in 1..Len(lines) : startswith(lines[i], prefix)}
    IN  IF hits = {} THEN 0 ELSE CHOOSE i \in hits : \A j \in hits : j <= i

\* the trimmed remainder after the first colon of the last line that starts
\* with prefix; the empty string when no line does
FieldOf(text, prefix) ==
    LET ls == LinesOf(text)
        k == LastLine(ls, prefix)
    IN  IF k = 0 THEN <<>>
        ELSE strip(SubSeq(ls[k], find(ls[k], COLON) + 1, Len(ls[k])))

IsHeaderLine(line) == startswith_any(line, {SUBJECT_, FROM_, TO_})

\* the body lines, each trimmed and followed by one space, in order
RECURSIVE BodyOfTrimmedLines(_)
BodyOfTrimmedLines(lines) ==
    IF lines = <<>> THEN <<>>
    ELSE (IF IsHeaderLine(Head(lines)) THEN <<>> ELSE strip(Head(lines)) \o SPACE)
         \o BodyOfTrimmedLines(Tail(lines))

\* the body lines as they stand, each followed by one space, in order
RECURSIVE BodyOfRawLines(_)
BodyOfRawLines(lines) ==
    IF lines = <<>> THEN <<>>
    ELSE (IF IsHeaderLine(Head(lines)) THEN <<>> ELSE Head(lines) \o SPACE)
         \o BodyOfRawLines(Tail(lines))

ReviewReturned == pc = "returned" /\ script = "reviews"

EmailReturned == pc = "returned" /\ script = "emails"

\* C8: extract_review_info never raises; originalProduct is the trimmed
\* remainder after the first colon of the last "Product:" line, reviewText
\* likewise for the last "Review:" line, the empty string when there is no such
\* line; the other lines do not enter the result.
C8_ExtractReviewInfo ==
    ReviewReturned =>
        /\ exc = "none"
        /\ original_product = FieldOf(records[1], PRODUCT_)
        /\ review_text = FieldOf(records[1], REVIEW_)

\* a record with two different "Product:" lines, a line matching neither
\* prefix and no "Review:" line: the later product is returned
C8_Witness ==
    /\ ReviewReturned
    /\ records[1] = <<"P","r","o","d","u","c","t",":"," ","T","v","\n","R","a","t","i","n","g"," ","5","\n","P","r","o","d","u","c","t",":","a",":","b"," ">>
    /\ original_product = <<"a",":","b">>
    /\ review_text = <<>>

\* C7 as amended: sender and receiver are the trimmed remainder after the
\* first colon of the last "From:" / "To:" line (empty when none); body is the
\* concatenation, in order, of every line starting with none of "Subject:",
\* "From:", "To:", each line TRIMMED and then followed by one space, the result
\* trimmed.
C7_ExtractEmailInfo ==
    EmailReturned =>
        /\ exc = "none"
        /\ sender = FieldOf(records[1], FROM_)
        /\ receiver = FieldOf(records[1], TO_)
        /\ body = strip(BodyOfTrimmedLines(LinesOf(records[1])))

\* a record whose body line carries inner and outer blanks, between a
\* "Subject:" line and a "From:" line
C7_Witness ==
    /\ EmailReturned
    /\ records[1] = <<"S","u","b","j","e","c","t",":"," ","H","i","\n"," ","t","w","o"," "," ","w","o","r","d","s"," ","\n","F","r","o","m",":"," ","a","@","x">>
    /\ sender = <<"a","@","x">>
    /\ receiver = <<>>
    /\ body = <<"t","w","o"," "," ","w","o","r","d","s">>

\* C7 as stated: body is the concatenation of the body lines as they stand,
\* each followed by one space, the result trimmed.
C7_AsStated ==
    EmailReturned =>
        /\ exc = "none"
        /\ sender = FieldOf(records[1], FROM_)
        /\ receiver = FieldOf(records[1], TO_)
        /\ body = strip(BodyOfRawLines(LinesOf(records[1])))

----------------------------------------------------------------------------
(* The pipelines: what the claims expect of a run                           *)

\* the pieces of the input file between delimiters, each trimmed, the blank
\* ones left out, in the order of the file
Segments ==
    LET raw == split(in_file.text, delimiter, -1)
        trimmed == [i \in 1..Len(raw) |-> strip(raw[i])]
    IN  SelectSeq(trimmed, LAMBDA x : x # <<>>)

Succeeded == pc = "done" /\ exc = "none"

Report(e) == <<"An error occurred", e>>

Labels == {<<"P","o","s","i","t","i","v","e">>, <<"N","e","g","a","t","i","v","e">>, <<"N","e","u","t","r","a","l">>}

\* the trimmed text when it is one of the three labels, Neutral otherwise
Normalized(text) == IF strip(text) \in Labels THEN strip(text) ELSE <<"N","e","u","t","r","a","l">>

\* the calls made on the session so far
Calls == Len(session)

\* the pauses taken so far
Pauses == slept \div SLEEP_SECONDS

ExpectedBody(segment) == strip(BodyOfTrimmedLines(LinesOf(segment)))

\* C1: a successful run of process_reviews / process_emails leaves exactly
\* one row per non-blank trimmed segment of the content, and row i carries the
\* fields of the i-th such segment (also when that segment has no field).
C1_OneRowPerSegment ==
    LET segs == Segments
    IN  /\ Len(data) <= Len(segs)
        /\ Succeeded => Len(data) = Len(segs)
        /\ \A j \in 1..Len(data) :
              IF script = "reviews"
              THEN /\ data[j][1] = FieldOf(segs[j], PRODUCT_)
                   /\ data[j][3] = FieldOf(segs[j], REVIEW_)
              ELSE /\ data[j][1] = FieldOf(segs[j], FROM_)
                   /\ data[j][2] = FieldOf(segs[j], TO_)

\* a review file of a blank segment and a segment without fields: one row,
\* with empty product and review
C1_Witness ==
    /\ Succeeded /\ script = "reviews"
    /\ in_file.text = <<" ","\n","-","-","-","E","N","D"," ","O","F"," ","R","E","V","I","E","W","-","-","-","n","o"," ","f","i","e","l","d","s"," ","h","e","r","e">>
    /\ Len(data) = 1
    /\ data[1][1] = <<>> /\ data[1][3] = <<>>

\* C2: once a model call has raised, it is the last call made, the output
\* file has not been opened and holds what it held, and main has caught the
\* error and reports it once.
C2_RemoteErrorAborts ==
    \A i \in 1..Calls :
        session[i].raised =>
            /\ i = Calls
            /\ writes = 0
            /\ out_file.exists => out_file.text = OldOutput
            /\ exc = "RemoteError"
            /\ pc \in {"except", "done"}
            /\ pc = "except" => stdout = <<>>
            /\ pc = "done" => stdout = <<Report("RemoteError")>>

\* the reply call of record 2 of 2 raised: one row was computed, nothing written
C2_Witness ==
    /\ pc = "done" /\ script = "reviews"
    /\ Len(records) = 2 /\ idx = 2 /\ Len(data) = 1
    /\ Calls = 6 /\ session[6].raised
    /\ out_file.exists /\ out_file.text = OldOutput
    /\ stdout = <<Report("RemoteError")>>

\* C3: in the review pipeline the calls on the session are, record by record,
\* guess, classify, reply (its prompt carrying the normalized sentiment); row j
\* is [product, guess, review, sentiment, reply] and comes after its three
\* calls; the 2 s pause comes after the row; no call for record j+1 precedes
\* the pause of record j; a run that succeeds has paused once per record.
C3_ReviewOrder ==
    script = "reviews" =>
        LET segs == Segments
        IN  /\ \A i \in 1..Calls :
                  LET j == (i + 2) \div 3
                  IN  /\ j <= Len(segs)
                      /\ session[i].prompt =
                            CASE i % 3 = 1 -> guess_prompt(FieldOf(segs[j], REVIEW_))
                              [] i % 3 = 2 -> classify_prompt(FieldOf(segs[j], REVIEW_))
                              [] OTHER -> reply_prompt(Normalized(session[i - 1].text),
                                                       FieldOf(segs[j], REVIEW_))
            /\ \A j \in 1..Len(data) :
                  /\ 3 * j <= Calls
                  /\ ~session[3 * j].raised
                  /\ data[j] = << FieldOf(segs[j], PRODUCT_),
                                  strip(session[3 * j - 2].text),
                                  FieldOf(segs[j], REVIEW_),
                                  Normalized(session[3 * j - 1].text),
                                  strip(session[3 * j].text) >>
            /\ slept = SLEEP_SECONDS * Pauses
            /\ Pauses <= Len(data) /\ Len(data) <= Pauses + 1
            /\ Calls <= 3 * Pauses + 3
            /\ Succeeded => Pauses = Len(segs) /\ Calls = 3 * Len(segs)

\* a review run of two records that succeeded: six calls, two rows, two pauses
C3_Witness ==
    /\ Succeeded /\ script = "reviews"
    /\ Calls = 6 /\ Len(data) = 2 /\ slept = 2 * SLEEP_SECONDS

\* C4: the sentiment analyze_sentiment returns, writes to the row and puts in
\* the reply prompt is one of Positive, Negative, Neutral: the trimmed response
\* when that is exactly one of the three, Neutral otherwise.
C4_SentimentNormalized ==
    script = "reviews" =>
        /\ pc \in {"reply", "append", "sleep"} =>
              /\ sentiment \in Labels
              /\ sentiment = Normalized(session[3 * idx - 1].text)
        /\ \A j \in 1..Len(data) :
              /\ data[j][4] \in Labels
              /\ data[j][4] = Normalized(session[3 * j - 1].text)
        /\ \A i \in 1..Calls :
              i % 3 = 0 =>
                  startswith(session[i].prompt,
                             <<"W","r","i","t","e"," ","a"," ","r","e","p","l","y"," ","t","o"," ","t","h","i","s"," ","r","e","v","i","e","w"," ","b","a","s","e","d"," ","o","n"," ","t","h","e"," ","s","e","n","t","i","m","e","n","t",":"," ">>
                             \o Normalized(session[i - 1].text) \o <<"."," ","R","e","v","i","e","w",":"," ">>)

\* " Negative\n" was kept as Negative and "positive" became Neutral
C4_Witness ==
    /\ script = "reviews" /\ Len(data) = 2
    /\ session[2].text = <<" ","N","e","g","a","t","i","v","e","\n">> /\ data[1][4] = <<"N","e","g","a","t","i","v","e">>
    /\ session[5].text = <<"p","o","s","i","t","i","v","e">> /\ data[2][4] = <<"N","e","u","t","r","a","l">>

KeyMissing == ~api_key.present \/ api_key.value = <<>>

C9_OutputFile ==
    Succeeded =>
        /\ writes = 1
        /\ out_file.exists
        /\ out_file.text =
              csv_row(IF script = "reviews" THEN REVIEW_HEADER ELSE EMAIL_HEADER)
              \o csv_rows(data)
        /\ data = <<>> =>
              out_file.text =
                IF script = "reviews"
                THEN <<"O","r","i","g","i","n","a","l"," ","P","r","o","d","u","c","t",",","G","u","e","s","s","e","d"," ","P","r","o","d","u","c","t",",","R","e","v","i","e","w",",","S","e","n","t","i","m","e","n","t",",","R","e","p","l","y","\r","\n">>
                ELSE <<"S","e","n","d","e","r",",","R","e","c","e","i","v","e","r",",","S","u","m","m","a","r","y"," ","(","E","N",")",",","S","u","m","m","a","r","y"," ","(","D","E",")","\r","\n">>

\* an input file holding only the delimiter gives a header-only file
C9_Witness ==
    /\ Succeeded /\ script = "reviews"
    /\ in_file.text = <<"-","-","-","E","N","D"," ","O","F"," ","R","E","V","I","E","W","-","-","-">>
    /\ data = <<>>
    /\ out_file.text = <<"O","r","i","g","i","n","a","l"," ","P","r","o","d","u","c","t",",","G","u","e","s","s","e","d"," ","P","r","o","d","u","c","t",",","R","e","v","i","e","w",",","S","e","n","t","i","m","e","n","t",",","R","e","p","l","y","\r","\n">>

\* C10: in the email pipeline the calls on the session are, record by record,
\* summarize (carrying the extracted body) and then translate (carrying the
\* summary the first call returned); row j is [sender, receiver, summary,
\* translation]; no call for record j+1 precedes row j; there is no pause.
C10_EmailOrder ==
    script = "emails" =>
        LET segs == Segments
        IN  /\ \A i \in 1..Calls :
                  LET j == (i + 1) \div 2
                  IN  /\ j <= Len(segs)
                      /\ session[i].prompt =
                            IF i % 2 = 1 THEN summarize_prompt(ExpectedBody(segs[j]))
                            ELSE translate_prompt(session[i - 1].text)
            /\ \A j \in 1..Len(data) :
                  /\ 2 * j <= Calls
                  /\ ~session[2 * j].raised
                  /\ data[j] = << FieldOf(segs[j], FROM_), FieldOf(segs[j], TO_),
                                  session[2 * j - 1].text, session[2 * j].text >>
            /\ Calls <= 2 * Len(data) + 2
            /\ slept = 0
            /\ Succeeded => Calls = 2 * Len(segs) /\ Len(data) = Len(segs)

\* an email run of two records that succeeded: four calls, two rows, no pause
C10_Witness ==
    /\ Succeeded /\ script = "emails"
    /\ Calls = 4 /\ Len(data) = 2 /\ slept = 0
    /\ session[4].prompt = translate_prompt(session[3].text)
    /\ session[3].text # body

====
